---- MODULE Spec2Model ----
(***************************************************************************)
(* A model of the go-saga execution core: one Saga instance driving its    *)
(* log stream (storage.Storage), the forward execution of sub-transactions *)
(* (ExecSub), the reverse compensation (Abort / compensate) with its       *)
(* recursion kept on an explicit call stack, and the termination           *)
(* (EndSaga).  The Time field of a Log is not modelled: no code path reads *)
(* it.                                                                     *)
(***************************************************************************)
EXTENDS Integers, Sequences, FiniteSets, TLC

VARIABLES
    data,       \* memStorage.data: the records of the saga's log stream
    stack,      \* the call stack of the saga's control thread (top = last)
    started,    \* StartSaga has run
    panicMsg,   \* "" while running; the panic message once the thread died
    aborted,    \* history: an ExecSub of this instance has called Abort
    events,     \* history: every action / compensation call, in call order
    ops,        \* history: the calls made by the saga's caller, in order
    provider,   \* the storage behind the saga: "memory", or one that may fail
    cur,        \* the saga whose thread is running: the variables above are its own
    handle,     \* the memStorage object the running saga holds (s.storage)
    peer,       \* the other saga of the process, its thread suspended; <<>> if none
    heap,       \* the data of the memStorage objects, by object; the object of the
                \* running saga is written back when its thread is suspended
    appenders   \* the threads that call the storage directly, each with the
                \* position and the locals of its call; <<>> if none

\* the sagas of the process beside the running one, the storage objects and the
\* direct users of the storage
conc == <<cur, handle, peer, heap, appenders>>

vars == <<data, stack, started, panicMsg, aborted, events, ops, provider, conc>>

----------------------------------------------------------------------------
(* Bounds of the model *)

\* the caller makes at most MaxOps calls (ExecSub, EndSaga, Abort) on the saga
MaxOps == 3

\* at most MaxCompFail compensation calls report failure in one run
MaxCompFail == 1

\* with two sagas in the process, their callers make at most MaxOpsBoth calls
\* together
MaxOpsBoth == 2

\* and at most MaxCompFailEach compensation calls of each saga report failure
MaxCompFailEach == 0

----------------------------------------------------------------------------
(* The registry and the arguments *)

\* the sub-transaction ids registered with the coordinator (AddSubTxDef)
SubTxDefs == {"deduce", "deposit"}

\* the ids a caller may pass to ExecSub: the registered ones and a stranger
SubTxIDs == SubTxDefs \cup {"refund"}

\* the argument tuples a caller may pass to its next ExecSub: every call of a
\* run passes an amount of its own, so that no two calls carry the same arguments
ArgTuples == {<<Len(ops) + 1>>}

\* what a callable may return through reflect: no value at all (PTest1), one
\* nil error, or one non-nil error
CallResults == {<<>>, <<"nil">>, <<"error">>}

\* whether a storage call returns an error: the memory storage never does, the
\* Storage interface allows it
StorageErrs == IF provider = "memory" THEN {FALSE} ELSE BOOLEAN

----------------------------------------------------------------------------
(* The log entry model *)

SagaStart == "SagaStart"
SagaEnd == "SagaEnd"
SagaAbort == "SagaAbort"
ActionStart == "ActionStart"
ActionEnd == "ActionEnd"
CompensateStart == "CompensateStart"
CompensateEnd == "CompensateEnd"

\* the encoded, reversible representation of the call arguments
MarshalParam(args) == [k \in 1..Len(args) |-> <<"int", args[k]>>]

UnmarshalParam(params) == [k \in 1..Len(params) |-> params[k][2]]

\* a Log value {Type, SubTxID, Params}
Log(type, subTxID, params) == [Type |-> type, SubTxID |-> subTxID, Params |-> params]

\* the stored record of a Log
mustMarshal(l) == <<l.Type, l.SubTxID, l.Params>>

mustUnmarshalLog(rec) == [Type |-> rec[1], SubTxID |-> rec[2], Params |-> rec[3]]

----------------------------------------------------------------------------
(* The memory storage *)

NewMemStorage == <<>>

\* mutant of NewMemStorageObject: one package-level store serves every saga
NewMemStorageShared(n) == 1

\* return &memStorage{...}: the n-th call of NewMemStorage allocates an object of
\* its own
NewMemStorageObject(n) == n

\* mutant of AppendLog: the record is assigned, not appended
AppendLogAssign(d, rec) == <<rec>>

\* mutant of AppendLog: the record is put in front of the others
AppendLogFront(d, rec) == <<rec>> \o d

\* mutant of Lookup: the last record only
LookupLastOnly(d) == IF d = <<>> THEN <<>> ELSE <<d[Len(d)]>>

AppendLog(d, rec) == Append(d, rec)

Lookup(d) == d

\* mutant of Cleanup: the records are kept
CleanupKeep(d) == d

Cleanup(d) == <<>>

----------------------------------------------------------------------------
(* The coordinator *)

\* "found" for a registered id; an unknown id is fatal
MustFindSubTxDef(id) == IF id \in SubTxDefs THEN "found" ELSE "panic"

\* mutant of isReturnError: any returned value counts as an error, nil too
isReturnErrorAnyValue(result) == Len(result) = 1

isReturnError(result) == Len(result) = 1 /\ result[1] /= "nil"

----------------------------------------------------------------------------
(* The call stack *)

NoLog == Log("", "", <<>>)

\* one frame of the control thread; fields a function does not use are blank
Frame(fn, pc, subTxID, args, tlog) == [fn |-> fn, pc |-> pc, subTxID |-> subTxID,
    args |-> args, tlog |-> tlog, logs |-> <<>>, i |-> 0, failed |-> FALSE,
    ev0 |-> Len(events), len0 |-> Len(data)]

Top == stack[Len(stack)]

Pop == SubSeq(stack, 1, Len(stack) - 1)

SetTop(f) == [stack EXCEPT ![Len(stack)] = f]

Running == panicMsg = ""

At(fn, pc) == Running /\ stack /= <<>> /\ Top.fn = fn /\ Top.pc = pc

\* the caller may make its next call: the previous one has returned
Idle == /\ Running /\ started /\ stack = <<>>
        /\ IF peer = <<>> THEN Len(ops) < MaxOps
                          ELSE Len(ops) + Len(peer[1].ops) < MaxOpsBoth

\* an unrecovered panic ends the control thread
Panic(msg) == /\ panicMsg' = msg
              /\ stack' = <<>>

Caller == stack[Len(stack) - 1]

\* history record of a call made by the saga's caller: what was called, and where
\* the log and the call history stood
Op(name, id, args) == [op |-> name, id |-> id, args |-> args,
    ev0 |-> Len(events), len0 |-> Len(data), afterAbort |-> aborted]

\* the business outcome of a call of an action or a compensation
Failed(result) == result = <<"error">>

\* history record of a call of an action or a compensation: which callable, its
\* arguments and outcome, and the position in the log of the ActionStart entry
\* it was called for (for a compensation: in the logs Abort had read back)
Event(kind, id, args, result, idx) == [kind |-> kind, id |-> id, args |-> args,
    ok |-> ~Failed(result), idx |-> idx, afterAbort |-> aborted]

\* history record of a storage call that returned an error: which call, and how
\* long the log was
Fault(call) == [kind |-> "storage", id |-> call, args |-> <<>>,
    ok |-> FALSE, idx |-> Len(data), afterAbort |-> aborted]

\* mutant of StoragePanic: the error is recorded and the thread goes on
StorageErrorIgnored(call, msg) ==
    /\ events' = Append(events, Fault(call))
    /\ UNCHANGED <<panicMsg, stack>>

\* if err != nil { panic(msg) } after a storage call
StoragePanic(call, msg) ==
    /\ events' = Append(events, Fault(call))
    /\ Panic(msg)

CompFails == Cardinality({k \in 1..Len(events) :
    events[k].kind = "compensate" /\ ~events[k].ok})

----------------------------------------------------------------------------
(* Init: the Saga built by StartSaga on a fresh memory storage *)

Init == /\ data = NewMemStorage
        /\ stack = <<>>
        /\ started = FALSE
        /\ panicMsg = ""
        /\ aborted = FALSE
        /\ events = <<>>
        /\ ops = <<>>
        /\ provider = "memory"
        /\ cur = 1
        /\ handle = NewMemStorageObject(1)
        /\ peer = <<>>
        /\ heap = [h \in {handle} |-> NewMemStorage]
        /\ appenders = <<>>

\* mutant of startSaga: the saga starts without its SagaStart entry
startSagaSilent ==
    /\ Running /\ ~started
    /\ started' = TRUE
    /\ UNCHANGED <<data, stack, panicMsg, aborted, events, ops, provider, conc>>

\* Saga.startSaga: append the SagaStart entry
startSaga ==
    /\ Running /\ ~started
    /\ \E err \in StorageErrs :
        IF err
        THEN /\ StoragePanic("AppendLog", "Add logger Failure")
             /\ UNCHANGED <<data, started>>
        ELSE /\ data' = AppendLog(data, mustMarshal(Log(SagaStart, "", <<>>)))
             /\ started' = TRUE
             /\ UNCHANGED <<stack, panicMsg, events>>
    /\ UNCHANGED <<aborted, ops, provider, conc>>

\* mutant of ActionStartLog: the entry carries no Params, like an ActionEnd
ActionStartLogNoParams(subTxID, args) == Log(ActionStart, subTxID, <<>>)

\* the ActionStart entry of ExecSub, with the encoded arguments
ActionStartLog(subTxID, args) == Log(ActionStart, subTxID, MarshalParam(args))

\* mutant of ExecSub: the definition is not resolved before the entry is logged
ExecSubUnresolved(subTxID, args) ==
    /\ Idle
    /\ ops' = Append(ops, Op("ExecSub", subTxID, args))
    /\ data' = AppendLog(data, mustMarshal(ActionStartLog(subTxID, args)))
    /\ stack' = <<Frame("ExecSub", "call", subTxID, args, NoLog)>>
    /\ UNCHANGED <<started, panicMsg, aborted, events, provider, conc>>

\* the caller's StartSaga(...).ExecSub(subTxID, args...): resolve the definition,
\* append the ActionStart entry; the action call is the next step
ExecSub(subTxID, args) ==
    /\ Idle
    /\ ops' = Append(ops, Op("ExecSub", subTxID, args))
    /\ IF MustFindSubTxDef(subTxID) = "panic"
       THEN /\ Panic("SubTxDef not found")
            /\ UNCHANGED <<data, events>>
       ELSE \E err \in StorageErrs :
            IF err
            THEN /\ StoragePanic("AppendLog", "Add logger Failure")
                 /\ UNCHANGED data
            ELSE /\ data' = AppendLog(data,
                        mustMarshal(ActionStartLog(subTxID, args)))
                 /\ stack' = <<Frame("ExecSub", "call", subTxID, args, NoLog)>>
                 /\ UNCHANGED <<panicMsg, events>>
    /\ UNCHANGED <<started, aborted, provider, conc>>

\* ExecSub, the action call: on failure Abort is entered, ExecSub returns after it
ExecSubAction ==
    /\ At("ExecSub", "call")
    /\ \E result \in CallResults :
        /\ events' = Append(events,
                Event("action", Top.subTxID, Top.args, result, Top.len0 + 1))
        /\ IF isReturnError(result)
           THEN /\ aborted' = TRUE
                /\ stack' = Append(SetTop([Top EXCEPT !.pc = "return"]),
                                   Frame("Abort", "lookup", "", <<>>, NoLog))
           ELSE /\ stack' = SetTop([Top EXCEPT !.pc = "end"])
                /\ UNCHANGED aborted
    /\ UNCHANGED <<data, started, panicMsg, ops, provider, conc>>

\* mutant of ExecSubEnd: ExecSub returns without an ActionEnd entry
ExecSubEndSilent ==
    /\ At("ExecSub", "end")
    /\ stack' = Pop
    /\ UNCHANGED <<data, started, panicMsg, aborted, events, ops, provider, conc>>

\* ExecSub, the action succeeded: append the ActionEnd entry and return
ExecSubEnd ==
    /\ At("ExecSub", "end")
    /\ \E err \in StorageErrs :
        IF err
        THEN /\ StoragePanic("AppendLog", "Add logger Failure")
             /\ UNCHANGED data
        ELSE /\ data' = AppendLog(data, mustMarshal(Log(ActionEnd, Top.subTxID, <<>>)))
             /\ stack' = Pop
             /\ UNCHANGED <<panicMsg, events>>
    /\ UNCHANGED <<started, aborted, ops, provider, conc>>

\* ExecSub, Abort has returned: return s
ExecSubReturn ==
    /\ At("ExecSub", "return")
    /\ stack' = Pop
    /\ UNCHANGED <<data, started, panicMsg, aborted, events, ops, provider, conc>>

\* the caller's EndSaga(): append the SagaEnd entry; the cleanup is the next step
EndSaga ==
    /\ Idle
    /\ ops' = Append(ops, Op("EndSaga", "", <<>>))
    /\ \E err \in StorageErrs :
        IF err
        THEN /\ StoragePanic("AppendLog", "Add logger Failure")
             /\ UNCHANGED data
        ELSE /\ data' = AppendLog(data, mustMarshal(Log(SagaEnd, "", <<>>)))
             /\ stack' = <<Frame("EndSaga", "cleanup", "", <<>>, NoLog)>>
             /\ UNCHANGED <<panicMsg, events>>
    /\ UNCHANGED <<started, aborted, provider, conc>>

\* EndSaga, the cleanup of the log stream, and the return
EndSagaCleanup ==
    /\ At("EndSaga", "cleanup")
    /\ \E err \in StorageErrs :
        IF err
        THEN /\ StoragePanic("Cleanup", "Clean up topic failure")
             /\ UNCHANGED data
        ELSE /\ data' = Cleanup(data)
             /\ stack' = Pop
             /\ UNCHANGED <<panicMsg, events>>
    /\ UNCHANGED <<started, aborted, ops, provider, conc>>

----------------------------------------------------------------------------
(* Abort and compensate *)

\* mutant of ScanOrder: the loop runs forward, first entry first
ScanForward(logs) == [k \in 1..Len(logs) |-> k]

\* for i := len(logs) - 1; i >= 0; i--: the positions of logs in the order the
\* loop visits them, last entry first (positions are 1-based here); a frame's i
\* counts the turns of the loop
ScanOrder(logs) == [k \in 1..Len(logs) |-> Len(logs) + 1 - k]

\* mutant of NeedsCompensate: only completed actions are compensated
NeedsCompensateEnded(logger) == logger.Type = ActionEnd

\* the entries Abort compensates: those of type ActionStart
NeedsCompensate(logger) == logger.Type = ActionStart

\* mutant of compensateReturn: the failure of the compensation is returned
compensateReturnFailure(failed) == IF failed THEN "error" ELSE "nil"

\* what compensate returns to Abort after a call that failed or not
compensateReturn(failed) == "nil"

\* the caller's Abort()
Abort ==
    /\ Idle
    /\ ops' = Append(ops, Op("Abort", "", <<>>))
    /\ stack' = <<Frame("Abort", "lookup", "", <<>>, NoLog)>>
    /\ UNCHANGED <<data, started, panicMsg, aborted, events, provider, conc>>

\* Abort, entry: read the log back, append the SagaAbort entry
AbortLookup ==
    /\ At("Abort", "lookup")
    /\ \E lerr \in StorageErrs, err \in StorageErrs :
        IF lerr
        THEN /\ StoragePanic("Lookup", "Abort Panic")
             /\ UNCHANGED data
        ELSE IF err
        THEN /\ StoragePanic("AppendLog", "Add log Failure")
             /\ UNCHANGED data
        ELSE /\ data' = AppendLog(data, mustMarshal(Log(SagaAbort, "", <<>>)))
             /\ stack' = SetTop([Top EXCEPT !.logs = Lookup(data), !.i = 1, !.pc = "loop"])
             /\ UNCHANGED <<panicMsg, events>>
    /\ UNCHANGED <<started, aborted, ops, provider, conc>>

\* Abort, one turn of the loop: an ActionStart entry is handed to compensate,
\* any other entry is passed over
AbortScan ==
    /\ At("Abort", "loop")
    /\ Top.i <= Len(Top.logs)
    /\ LET logger == mustUnmarshalLog(Top.logs[ScanOrder(Top.logs)[Top.i]]) IN
        IF NeedsCompensate(logger)
        THEN stack' = Append(SetTop([Top EXCEPT !.pc = "compensate"]),
                             Frame("compensate", "start", logger.SubTxID, <<>>, logger))
        ELSE stack' = SetTop([Top EXCEPT !.i = Top.i + 1])
    /\ UNCHANGED <<data, started, panicMsg, aborted, events, ops, provider, conc>>

\* mutant of AbortReturn: Abort spins after its loop and never returns
AbortNeverReturns ==
    /\ At("Abort", "loop")
    /\ Top.i > Len(Top.logs)
    /\ UNCHANGED vars

\* Abort, the loop is over: return
AbortReturn ==
    /\ At("Abort", "loop")
    /\ Top.i > Len(Top.logs)
    /\ stack' = Pop
    /\ UNCHANGED <<data, started, panicMsg, aborted, events, ops, provider, conc>>

\* compensate, entry: append the CompensateStart entry
compensateStart ==
    /\ At("compensate", "start")
    /\ \E err \in StorageErrs :
        IF err
        THEN /\ StoragePanic("AppendLog", "Add log Failure")
             /\ UNCHANGED data
        ELSE /\ data' = AppendLog(data,
                    mustMarshal(Log(CompensateStart, Top.tlog.SubTxID, <<>>)))
             /\ stack' = SetTop([Top EXCEPT !.pc = "call"])
             /\ UNCHANGED <<panicMsg, events>>
    /\ UNCHANGED <<started, aborted, ops, provider, conc>>

\* compensate, the compensation call with the decoded parameters: on failure
\* Abort is entered again, compensate goes on after it
compensateCall ==
    /\ At("compensate", "call")
    /\ IF MustFindSubTxDef(Top.tlog.SubTxID) = "panic"
       THEN /\ Panic("SubTxDef not found")
            /\ UNCHANGED events
       ELSE \E result \in CallResults :
            /\ isReturnError(result) =>
                    CompFails < (IF peer = <<>> THEN MaxCompFail ELSE MaxCompFailEach)
            /\ events' = Append(events,
                    Event("compensate", Top.tlog.SubTxID, UnmarshalParam(Top.tlog.Params),
                          result, ScanOrder(Caller.logs)[Caller.i]))
            /\ IF isReturnError(result)
               THEN stack' = Append(SetTop([Top EXCEPT !.pc = "end", !.failed = TRUE]),
                                    Frame("Abort", "lookup", "", <<>>, NoLog))
               ELSE stack' = SetTop([Top EXCEPT !.pc = "end"])
            /\ UNCHANGED panicMsg
    /\ UNCHANGED <<data, started, aborted, ops, provider, conc>>

\* compensate, the end: append the CompensateEnd entry and return to the loop of
\* Abort, which panics on a returned error
compensateEnd ==
    /\ At("compensate", "end")
    /\ \E err \in StorageErrs :
        IF err
        THEN /\ StoragePanic("AppendLog", "Add log Failure")
             /\ UNCHANGED data
        ELSE /\ data' = AppendLog(data,
                    mustMarshal(Log(CompensateEnd, Top.tlog.SubTxID, <<>>)))
             /\ IF compensateReturn(Top.failed) /= "nil"
                THEN /\ Panic("Compensate Failure..")
                     /\ UNCHANGED events
                ELSE /\ stack' = [Pop EXCEPT ![Len(stack) - 1] =
                            [@ EXCEPT !.i = @ + 1, !.pc = "loop"]]
                     /\ UNCHANGED <<panicMsg, events>>
    /\ UNCHANGED <<started, aborted, ops, provider, conc>>

----------------------------------------------------------------------------

Next ==
    \/ startSaga
    \/ \E subTxID \in SubTxIDs, args \in ArgTuples : ExecSub(subTxID, args)
    \/ ExecSubAction
    \/ ExecSubEnd
    \/ ExecSubReturn
    \/ EndSaga
    \/ EndSagaCleanup
    \/ Abort
    \/ AbortLookup
    \/ AbortScan
    \/ AbortReturn
    \/ compensateStart
    \/ compensateCall
    \/ compensateEnd

Spec == Init /\ [][Next]_vars

\* a step of the thread inside a call of the saga
InCall == stack /= <<>> /\ Next

\* the thread that is inside a call goes on running; the caller is free to make
\* no further call
SpecLive == Init /\ [][Next]_vars /\ WF_vars(InCall)

\* the same Saga over a storage whose calls may return an error
InitFailing ==
    /\ data = <<>>
    /\ stack = <<>>
    /\ started = FALSE
    /\ panicMsg = ""
    /\ aborted = FALSE
    /\ events = <<>>
    /\ ops = <<>>
    /\ provider = "failing"
    /\ cur = 1
    /\ handle = NewMemStorageObject(1)
    /\ peer = <<>>
    /\ heap = [h \in {handle} |-> NewMemStorage]
    /\ appenders = <<>>

SpecFailing == InitFailing /\ [][Next]_vars

----------------------------------------------------------------------------
(* Two sagas in one process, each on its own thread *)

\* the state of a saga whose thread is suspended: its storage object, the log as
\* the saga left it, and the thread's own variables
Suspended == [handle |-> handle, seen |-> data, stack |-> stack, started |-> started,
    panicMsg |-> panicMsg, aborted |-> aborted, events |-> events, ops |-> ops]

\* a saga built by StartSaga whose thread has not run yet
NewSaga(n) == [handle |-> NewMemStorageObject(n), seen |-> NewMemStorage, stack |-> <<>>,
    started |-> FALSE, panicMsg |-> "", aborted |-> FALSE, events |-> <<>>, ops |-> <<>>]

\* the data of a memStorage object
DataOf(h) == IF h = handle THEN data ELSE heap[h]

InitTwo ==
    /\ data = NewMemStorage
    /\ stack = <<>>
    /\ started = FALSE
    /\ panicMsg = ""
    /\ aborted = FALSE
    /\ events = <<>>
    /\ ops = <<>>
    /\ provider = "memory"
    /\ cur = 1
    /\ handle = NewMemStorageObject(1)
    /\ peer = <<NewSaga(2)>>
    /\ heap = [h \in {NewMemStorageObject(1), NewMemStorageObject(2)} |-> NewMemStorage]
    /\ appenders = <<>>

\* the scheduler suspends the running thread and resumes the other saga's; an
\* unrecovered panic has ended the process
Switch ==
    /\ Running
    /\ peer /= <<>>
    /\ cur' = 3 - cur
    /\ peer' = <<Suspended>>
    /\ heap' = [heap EXCEPT ![handle] = data]
    /\ handle' = peer[1].handle
    /\ data' = heap'[peer[1].handle]
    /\ stack' = peer[1].stack
    /\ started' = peer[1].started
    /\ panicMsg' = peer[1].panicMsg
    /\ aborted' = peer[1].aborted
    /\ events' = peer[1].events
    /\ ops' = peer[1].ops
    /\ UNCHANGED <<provider, appenders>>

NextTwo == Next \/ Switch

SpecTwo == InitTwo /\ [][NextTwo]_vars

----------------------------------------------------------------------------
(* The memory storage called directly, by one thread or by two at once *)

\* the threads make at most MaxStoreCalls calls of the storage together
MaxStoreCalls == 4

\* the records the threads append
StoreRecords == {"{}", "{\"Type\":1}"}

\* a thread between two calls of the storage
IdleThread == [pc |-> "idle", rec |-> "", local |-> <<>>]

\* one memStorage and the threads that call it; ops is the history of the calls
\* that have returned
InitStorage(threads) ==
    /\ data = NewMemStorage
    /\ stack = <<>>
    /\ started = FALSE
    /\ panicMsg = ""
    /\ aborted = FALSE
    /\ events = <<>>
    /\ ops = <<>>
    /\ provider = "memory"
    /\ cur = 1
    /\ handle = NewMemStorageObject(1)
    /\ peer = <<>>
    /\ heap = [h \in {handle} |-> NewMemStorage]
    /\ appenders = [t \in 1..threads |-> IdleThread]

StoreCallsStarted == Len(ops) + Cardinality({t \in DOMAIN appenders : appenders[t].pc /= "idle"})

\* AppendLog, s.data = append(s.data, data): the thread reads s.data ...
AppendLogRead(t, rec) ==
    /\ appenders[t].pc = "idle"
    /\ StoreCallsStarted < MaxStoreCalls
    /\ appenders' = [appenders EXCEPT ![t] = [pc |-> "write", rec |-> rec, local |-> data]]
    /\ UNCHANGED <<data, stack, started, panicMsg, aborted, events, ops, provider,
                   cur, handle, peer, heap>>

\* ... and stores the slice with the record appended to what it read; no lock is
\* held between the two
AppendLogWrite(t) ==
    /\ appenders[t].pc = "write"
    /\ data' = AppendLog(appenders[t].local, appenders[t].rec)
    /\ ops' = Append(ops, <<"AppendLog", appenders[t].rec>>)
    /\ appenders' = [appenders EXCEPT ![t] = IdleThread]
    /\ UNCHANGED <<stack, started, panicMsg, aborted, events, provider,
                   cur, handle, peer, heap>>

\* Cleanup, s.data = s.data[:0]
CleanupCall(t) ==
    /\ appenders[t].pc = "idle"
    /\ StoreCallsStarted < MaxStoreCalls
    /\ data' = Cleanup(data)
    /\ ops' = Append(ops, <<"Cleanup", "">>)
    /\ UNCHANGED <<stack, started, panicMsg, aborted, events, provider, conc>>

NextStorage ==
    \/ \E t \in DOMAIN appenders, rec \in StoreRecords : AppendLogRead(t, rec)
    \/ \E t \in DOMAIN appenders : AppendLogWrite(t)
    \/ \E t \in DOMAIN appenders : CleanupCall(t)

\* one thread: the calls follow one another, as in TestMemStorage
InitOneThread == InitStorage(1)

SpecStorage == InitOneThread /\ [][NextStorage]_vars

\* two threads on the same storage
InitTwoThreads == InitStorage(2)

\* both threads append, neither cleans up
NextRace ==
    \/ \E t \in DOMAIN appenders, rec \in StoreRecords : AppendLogRead(t, rec)
    \/ \E t \in DOMAIN appenders : AppendLogWrite(t)

SpecRace == InitTwoThreads /\ [][NextRace]_vars

----------------------------------------------------------------------------
(* Views of the history *)

IsAction(e) == e.kind = "action"

IsCompensate(e) == e.kind = "compensate"

ActionEvents == SelectSeq(events, IsAction)

CompensateEvents == SelectSeq(events, IsCompensate)

\* the compensation calls made after the first n calls of the history
CompensatesAfter(n) == SelectSeq(SubSeq(events, n + 1, Len(events)), IsCompensate)

FailedActions == {k \in 1..Len(ActionEvents) : ~ActionEvents[k].ok}

\* the caller's calls so far are those of StartSaga().ExecSub(..)...ExecSub(..).EndSaga()
IsChain == \A k \in 1..Len(ops) :
    ops[k].op = "ExecSub" \/ (ops[k].op = "EndSaga" /\ k = Len(ops))

\* the caller's last call has returned normally
Returned == Running /\ started /\ stack = <<>> /\ ops /= <<>>

\* the caller's last call was EndSaga, and it has returned
Ended == Returned /\ ops[Len(ops)].op = "EndSaga"

TypeOf(rec) == mustUnmarshalLog(rec).Type

----------------------------------------------------------------------------
(* The claims *)

\* C1 (happy path): after a chain StartSaga, ExecSub(A1), ..., ExecSub(An), EndSaga
\* in which every action succeeded, the log returned by Lookup is empty, the
\* actions called are exactly A1..An, each once and with its arguments, and no
\* compensation has been called.
C1_HappyPath ==
    (IsChain /\ Ended /\ FailedActions = {}) =>
        /\ Lookup(data) = <<>>
        /\ CompensateEvents = <<>>
        /\ Len(ActionEvents) = Len(ops) - 1
        /\ \A k \in 1..Len(ops) - 1 :
            /\ ActionEvents[k].id = ops[k].id
            /\ ActionEvents[k].args = ops[k].args

C1_Witness ==
    /\ IsChain /\ Ended /\ FailedActions = {}
    /\ Len(ops) = 3
    /\ ops[1].id /= ops[2].id

\* the compensation calls made for other entries than the ActionStart at idx
OtherCompensates(idx) == LET Other(e) == e.idx /= idx IN SelectSeq(CompensateEvents, Other)

\* exactly one call of an action or a compensation failed, and it was an action
SingleFailure ==
    /\ Cardinality(FailedActions) = 1
    /\ \A k \in 1..Len(CompensateEvents) : CompensateEvents[k].ok

\* C2 (single-failure rollback): in a chain of ExecSub calls in which the action
\* Ak failed and nothing else did, once the failing ExecSub has returned, and from
\* then on, the compensations called for the sub-transactions other than Ak are
\* those of A(k-1), ..., A1, in this order, each exactly once: the reverse of the
\* order in which their ActionStart entries were appended.
C2_SingleFailureRollback ==
    (IsChain /\ Returned /\ SingleFailure) =>
        LET k == CHOOSE j \in FailedActions : TRUE
            prior == OtherCompensates(ActionEvents[k].idx)
        IN /\ Len(prior) = k - 1
           /\ \A j \in 1..k - 1 :
                /\ prior[j].idx = ActionEvents[k - j].idx
                /\ prior[j].id = ActionEvents[k - j].id
                /\ ActionEvents[k - j].idx < ActionEvents[k - j + 1].idx

C2_Witness ==
    /\ IsChain /\ Returned /\ SingleFailure
    /\ FailedActions = {3}
    /\ Len(OtherCompensates(ActionEvents[3].idx)) = 2

\* C3: once an ExecSub of the instance has aborted, a later ExecSub calls no
\* action and appends no ActionStart entry.
C3_NoExecSubAfterAbort ==
    /\ \A k \in 1..Len(events) : IsAction(events[k]) => ~events[k].afterAbort
    /\ ~(aborted /\ At("ExecSub", "call"))

\* C4: on an instance that has aborted, EndSaga appends no SagaEnd entry and
\* does not clear the log.
C4_NoEndAfterAbort ==
    /\ aborted => \A j \in 1..Len(data) : TypeOf(data[j]) /= SagaEnd
    /\ \A k \in 1..Len(ops) :
        (ops[k].op = "EndSaga" /\ ops[k].afterAbort /\ (k < Len(ops) \/ Returned))
            => Len(data) >= ops[k].len0

\* C5: after a chain StartSaga, ExecSub(..), ..., EndSaga in which an action
\* failed (so Abort ran) and every compensation succeeded, the log returned by
\* Lookup is empty.
C5_EmptyAfterAbortedChain ==
    (/\ IsChain /\ Ended
     /\ FailedActions /= {}
     /\ \A k \in 1..Len(CompensateEvents) : CompensateEvents[k].ok)
        => Lookup(data) = <<>>

C5_Witness ==
    /\ IsChain /\ Ended
    /\ FailedActions = {2}
    /\ Len(CompensateEvents) = 2
    /\ \A k \in 1..Len(CompensateEvents) : CompensateEvents[k].ok

\* the Abort calls in progress that have read the log back (positions in stack)
AbortFrames == {k \in 1..Len(stack) : stack[k].fn = "Abort" /\ stack[k].pc /= "lookup"}

\* the Abort in stack[k] is about to return
AtReturn(k) == k = Len(stack) /\ stack[k].pc = "loop" /\ stack[k].i > Len(stack[k].logs)

AllOk(evs) == \A k \in 1..Len(evs) : evs[k].ok

RECURSIVE CompensationEntries(_, _)
\* the CompensateStart / CompensateEnd pairs of the ActionStart entries among the
\* first n entries of logs, latest entry first
CompensationEntries(logs, n) ==
    IF n = 0 THEN <<>>
    ELSE (IF TypeOf(logs[n]) = ActionStart
          THEN <<mustMarshal(Log(CompensateStart, logs[n][2], <<>>)),
                 mustMarshal(Log(CompensateEnd, logs[n][2], <<>>))>>
          ELSE <<>>) \o CompensationEntries(logs, n - 1)

\* C6: Abort never clears or rewrites the log. While an Abort runs, the log it
\* read back at its start is a prefix of the log, the entry after it is SagaAbort
\* and every later entry is a SagaAbort, CompensateStart or CompensateEnd; when
\* Abort returns after compensations that all succeeded, the log is that prefix,
\* the SagaAbort entry and the CompensateStart / CompensateEnd pair of every
\* ActionStart entry of the prefix, latest first.
C6_AbortKeepsLog ==
    \A k \in AbortFrames :
        LET f == stack[k]
            n == Len(f.logs)
        IN /\ Len(data) > n
           /\ SubSeq(data, 1, n) = f.logs
           /\ data[n + 1] = mustMarshal(Log(SagaAbort, "", <<>>))
           /\ \A j \in n + 1..Len(data) :
                TypeOf(data[j]) \in {SagaAbort, CompensateStart, CompensateEnd}
           /\ (AtReturn(k) /\ AllOk(CompensatesAfter(f.ev0))) =>
                data = f.logs \o <<mustMarshal(Log(SagaAbort, "", <<>>))>>
                              \o CompensationEntries(f.logs, n)

C6_Witness ==
    \E k \in AbortFrames :
        /\ AtReturn(k) /\ AllOk(CompensatesAfter(stack[k].ev0))
        /\ Len(data) = Len(stack[k].logs) + 5

\* C7 (conservative compensation): an Abort calls the compensation of every
\* ActionStart entry of the log it read back, with or without an ActionEnd entry
\* for it; and the Abort that ExecSub enters after a failed action first calls the
\* compensation of that failed sub-transaction, whose ActionStart is the last
\* entry read back.
C7_ConservativeCompensation ==
    \A k \in AbortFrames :
        LET f == stack[k]
            order == ScanOrder(f.logs)
            comps == CompensatesAfter(f.ev0)
        IN /\ \A t \in 1..Len(f.logs) :
                (t < f.i /\ TypeOf(f.logs[order[t]]) = ActionStart) =>
                    \E c \in 1..Len(comps) :
                        /\ comps[c].idx = order[t]
                        /\ comps[c].id = f.logs[order[t]][2]
           /\ (k = 2 /\ stack[1].fn = "ExecSub") =>
                /\ Len(f.logs) = stack[1].len0 + 1
                /\ f.logs[Len(f.logs)] = mustMarshal(
                        Log(ActionStart, stack[1].subTxID, MarshalParam(stack[1].args)))
                /\ (AtReturn(k) \/ comps /= <<>>) =>
                    /\ comps /= <<>>
                    /\ comps[1].idx = Len(f.logs)
                    /\ comps[1].id = stack[1].subTxID

C7_Witness ==
    /\ 2 \in AbortFrames /\ stack[1].fn = "ExecSub" /\ AtReturn(2)
    /\ \E t \in 1..Len(stack[2].logs) - 1 : 
        /\ TypeOf(stack[2].logs[t]) = ActionStart
        /\ TypeOf(stack[2].logs[t + 1]) = ActionEnd

\* C8: across nested aborts no ActionStart entry whose compensation has completed
\* has its compensation called again.
C8_NoRecompensation ==
    \A k \in 1..Len(stack) :
        (stack[k].fn = "Abort" /\ \A j \in 1..k - 1 : stack[j].fn /= "Abort") =>
            LET comps == CompensatesAfter(stack[k].ev0)
            IN \A a, b \in 1..Len(comps) :
                (a < b /\ comps[a].idx = comps[b].idx) => ~comps[a].ok

C10_UnknownIdFatal ==
    \A k \in 1..Len(ops) :
        (ops[k].op = "ExecSub" /\ ops[k].id \notin SubTxDefs) =>
            /\ k = Len(ops)
            /\ panicMsg = "SubTxDef not found"
            /\ Len(events) = ops[k].ev0
            /\ Len(data) = ops[k].len0

C10_Witness ==
    /\ panicMsg = "SubTxDef not found"
    /\ Len(ops) > 1
    /\ ops[Len(ops)].op = "ExecSub" /\ ops[Len(ops)].id \notin SubTxDefs

IsFault(e) == e.kind = "storage"

\* the last call of the caller
LastOp == ops[Len(ops)]

\* C11: a storage error is fatal to the operation. The thread panics at once and
\* nothing happens after the error: no entry is appended and no action or
\* compensation is called, the log stays as long as it was at the error. When
\* the append of the ActionStart entry fails, the error is the first thing that
\* came of the ExecSub: it has called no action; when the read of the log fails
\* at the start of an Abort, that Abort has appended no SagaAbort entry and
\* called no compensation.
C11_StorageFailuresFatal ==
    \A k \in 1..Len(events) :
        IsFault(events[k]) =>
            /\ k = Len(events)
            /\ ~Running /\ stack = <<>>
            /\ Len(data) = events[k].idx
            /\ (started /\ LastOp.op = "ExecSub" /\ Len(data) = LastOp.len0) =>
                /\ panicMsg = "Add logger Failure"
                /\ k = LastOp.ev0 + 1
            /\ events[k].id = "Lookup" =>
                panicMsg = "Abort Panic"

C11_WitnessExecSub ==
    /\ events /= <<>> /\ IsFault(events[Len(events)])
    /\ started /\ LastOp.op = "ExecSub" /\ Len(data) = LastOp.len0
    /\ Len(ops) = 2

C11_Witness ==
    /\ Len(events) > 2 /\ IsFault(events[Len(events)])
    /\ events[Len(events)].id = "Lookup"
    /\ IsCompensate(events[Len(events) - 1])

\* C12: right after StartSaga has returned, and before any call on the saga, the
\* log is the one entry SagaStart, with an empty SubTxID.
C12_StartSagaLogsSagaStart ==
    (Running /\ started /\ ops = <<>>) =>
        /\ Len(Lookup(data)) = 1
        /\ TypeOf(data[1]) = SagaStart
        /\ mustUnmarshalLog(data[1]).SubTxID = ""

C12_Witness == Running /\ started /\ ops = <<>> /\ stack = <<>> /\ data /= <<>>

\* the call of the action that the compensation call events[k] undoes: the last
\* action called before it for an ActionStart entry at the same position
ActionOf(k) ==
    LET js == {j \in 1..k - 1 : IsAction(events[j]) /\ events[j].idx = events[k].idx}
    IN IF js = {} THEN 0 ELSE CHOOSE j \in js : \A i \in js : i <= j

\* C13 (parameter replay): every compensation is called with the argument tuple
\* that ExecSub and the action were given when the ActionStart entry it is called
\* for was appended, and under the same sub-transaction id.
C13_ParameterReplay ==
    \A k \in 1..Len(events) :
        IsCompensate(events[k]) =>
            /\ ActionOf(k) /= 0
            /\ events[k].args = events[ActionOf(k)].args
            /\ events[k].id = events[ActionOf(k)].id

C13_Witness ==
    \E k, l \in 1..Len(events) :
        /\ IsCompensate(events[k]) /\ IsCompensate(events[l])
        /\ events[k].id = events[l].id
        /\ events[k].args /= events[l].args

\* C14: distinct sagas, each on its own storage object and sharing only the
\* registry, are independent. Under every interleaving of their steps the log of
\* the suspended saga is the log as that saga left it: no step of the other saga
\* changes it, so each log holds only its own saga's entries and grows as it
\* would with the saga alone.
C14_SagasIndependent ==
    peer /= <<>> =>
        /\ peer[1].handle /= handle
        /\ DataOf(peer[1].handle) = peer[1].seen

C14_Witness ==
    /\ peer /= <<>>
    /\ Len(data) > 2 /\ Len(peer[1].seen) > 2
    /\ data /= peer[1].seen
    /\ stack /= <<>> /\ peer[1].stack /= <<>>

\* the entries appended to the log since the caller's last call began
NewEntries == SubSeq(data, LastOp.len0 + 1, Len(data))

\* the action calls made since the caller's last call began
NewActions == SelectSeq(SubSeq(events, LastOp.ev0 + 1, Len(events)), IsAction)

\* the positions of the entries of the given type in a log
EntriesOfType(logs, type) == {j \in 1..Len(logs) : TypeOf(logs[j]) = type}

\* C17: ExecSub appends an ActionEnd entry if and only if its action call
\* succeeded. During and after an ExecSub whose action failed, no ActionEnd has
\* been appended; an ActionEnd is appended only after a successful action call;
\* and when an ExecSub whose action succeeded has returned, it has appended its
\* ActionStart entry and, directly after it, the ActionEnd entry with the same
\* SubTxID, and nothing else.
C17_ActionEndIffSuccess ==
    (Running /\ ops /= <<>> /\ LastOp.op = "ExecSub") =>
        /\ EntriesOfType(NewEntries, ActionEnd) /= {} =>
                (NewActions /= <<>> /\ NewActions[1].ok)
        /\ (NewActions /= <<>> /\ ~NewActions[1].ok) =>
                EntriesOfType(NewEntries, ActionEnd) = {}
        /\ (Returned /\ NewActions /= <<>> /\ NewActions[1].ok) =>
                NewEntries = << mustMarshal(ActionStartLog(LastOp.id, LastOp.args)),
                                mustMarshal(Log(ActionEnd, LastOp.id, <<>>)) >>

C17_Witness ==
    /\ Returned /\ Len(ops) = 3 /\ LastOp.op = "ExecSub"
    /\ ~ActionEvents[1].ok
    /\ NewActions /= <<>> /\ NewActions[1].ok
    /\ TypeOf(data[Len(data)]) = ActionEnd

\* the compensation calls that succeeded
OkCompensates == {k \in 1..Len(CompensateEvents) : CompensateEvents[k].ok}

\* C18: a CompensateEnd entry is appended only for a compensation call that
\* succeeded, none for a call that failed: the log never holds more
\* CompensateEnd entries than compensation calls have succeeded.
C18_CompensateEndOnlyOnSuccess ==
    Cardinality(EntriesOfType(data, CompensateEnd)) <= Cardinality(OkCompensates)

\* a call of the saga is in progress, and an Abort within it
Aborting == \E k \in 1..Len(stack) : stack[k].fn = "Abort"

\* C19: with finitely many failures of compensation calls (at most MaxCompFail
\* here), Abort terminates: from every state in which an Abort is in progress,
\* nested in others after failed compensations or not, the thread comes to the
\* state in which every Abort and the call the caller made have returned.
C19_AbortTerminates == Aborting ~> (Running /\ stack = <<>>)

C19_Witness ==
    /\ Returned /\ LastOp.op = "ExecSub"
    /\ CompFails = MaxCompFail
    /\ Len(CompensatesAfter(LastOp.ev0)) > CompFails

\* C20: after any sequence of StartSaga, ExecSub, Abort and EndSaga calls on a
\* saga, a log that is not empty begins with the SagaStart entry of StartSaga,
\* and that is the only SagaStart entry in it.
C20_LogBeginsWithSagaStart ==
    Lookup(data) /= <<>> =>
        /\ TypeOf(Lookup(data)[1]) = SagaStart
        /\ EntriesOfType(Lookup(data), SagaStart) = {1}

\* an EndSaga call of the caller has returned (and has cleared the log)
EndSagaReturned ==
    \E k \in 1..Len(ops) : ops[k].op = "EndSaga" /\ (k < Len(ops) \/ stack = <<>>)

\* C20, amended: after any sequence of StartSaga, ExecSub and Abort calls on a
\* saga, and until an EndSaga call has returned, a log that is not empty begins
\* with the SagaStart entry of StartSaga, and that is the only SagaStart entry in
\* it.
C20_BeginsWithSagaStartUntilEnd ==
    (~EndSagaReturned /\ Lookup(data) /= <<>>) =>
        /\ TypeOf(Lookup(data)[1]) = SagaStart
        /\ EntriesOfType(Lookup(data), SagaStart) = {1}

C20_Witness ==
    /\ ~EndSagaReturned
    /\ Len(ops) = 3 /\ ops[2].op = "Abort" /\ LastOp.op = "EndSaga"
    /\ TypeOf(data[Len(data)]) = SagaEnd
    /\ EntriesOfType(data, CompensateEnd) /= {}

\* how many times rec occurs in the sequence seq
Occurrences(seq, rec) == Cardinality({k \in 1..Len(seq) : seq[k] = rec})

\* C15: when two threads call AppendLog on one log stream at the same time, no
\* append is lost: every record is in the stream as many times as AppendLog has
\* returned for it.
C15_NoAppendLost ==
    \A rec \in StoreRecords :
        Occurrences(Lookup(data), rec) >= Occurrences(ops, <<"AppendLog", rec>>)

RECURSIVE SinceCleanup(_)
\* the records of the AppendLog calls of the history after its last Cleanup
SinceCleanup(calls) ==
    IF calls = <<>> \/ calls[Len(calls)][1] = "Cleanup" THEN <<>>
    ELSE Append(SinceCleanup(SubSeq(calls, 1, Len(calls) - 1)), calls[Len(calls)][2])

\* C16: after any sequence of AppendLog and Cleanup calls on a memory storage,
\* Lookup returns the records appended since the creation or the last Cleanup,
\* in the order of the appends; the record just appended is among them.
C16_LookupReturnsAppended ==
    /\ Lookup(data) = SinceCleanup(ops)
    /\ (ops /= <<>> /\ LastOp[1] = "AppendLog") =>
        \E k \in 1..Len(Lookup(data)) : Lookup(data)[k] = LastOp[2]

C16_Witness ==
    /\ Len(ops) = 4
    /\ ops[2][1] = "Cleanup"
    /\ Len(Lookup(data)) = 2
    /\ data[1] /= data[2]

====
